---- MODULE Spec2Model ----
(***************************************************************************)
(* A model of the brainrotter video generator (src/main.py, src/prompt.py). *)
(*                                                                         *)
(* The pipeline part models one invocation of main.py after the other: the *)
(* files on disk (fs) outlive an invocation, the process's own variables   *)
(* do not.  Every external call (speech synthesis, transcription, probe,   *)
(* encode, mux, file removal) is one step that either succeeds or raises.  *)
(* Media durations are whole numbers of grid units.                        *)
(*                                                                         *)
(* The subtitle part applies generateSubtitles and generateSubtitleFile to *)
(* transcripts.  Its times are binary floating-point numbers of Precision  *)
(* significant bits, each the exact rational it stands for; every          *)
(* subtraction, division, product and sum of generateSubtitles rounds its  *)
(* exact result to the nearest such number, ties to even, as Python's      *)
(* float arithmetic does with 53 bits.                                     *)
(***************************************************************************)
EXTENDS Integers, Sequences, FiniteSets, TLC

(* ------------------------------ bounds -------------------------------- *)

\* Longest media duration (narration audio, library video), in grid units.
MaxDur == 2

\* Longest text of a transcript segment, in characters.
MaxChars == 5

\* Most segments in a transcript of several segments.
MaxSegs == 2

\* Latest segment boundary, in grid units.
MaxTime == 2

\* Largest maxWordsPerSegment.
MaxGroup == 3

\* Most cues in a cue list handed to generateSubtitleFile as it is.
MaxCues == 3

\* The significant bits of a float.
Precision == 4

(* ------------------------- paths and constants ------------------------ *)

\* The processes that may run main.py.  Spec runs process 1 only, one
\* invocation after the other.
Procs == {1, 2}

SerialProcs == {1}

TEMP_AUDIO_FILE == "audio.mp3"

TEMP_SRT_FILE == "sub.srt"

TEMP_VIDEO_FILE == "temp.mp4"

FINAL_VIDEO_FILE == "final.mp4"

VIDEO_DATABASE == "bases"

\* The three temporary files of a run.
TempFiles == {TEMP_AUDIO_FILE, TEMP_SRT_FILE, TEMP_VIDEO_FILE}

\* The files of the source-video folders: two videos and a text file in the
\* default folder, nothing but a text file in the folder "clips".
LibraryFiles == {"bases/a.mp4", "bases/b.mov", "bases/notes.txt", "clips/todo.txt"}

LibraryVideos == {"bases/a.mp4", "bases/b.mov"}

\* Values of -o: the default, another file, and the path of the silent clip.
OutputChoices == {FINAL_VIDEO_FILE, "out.mp4", TEMP_VIDEO_FILE}

\* Values of -v: the default folder and another one.
FolderChoices == {VIDEO_DATABASE, "clips"}

Paths == TempFiles \cup OutputChoices \cup LibraryFiles

\* os.path.dirname of a library file.
DirOf(f) ==
    CASE f \in {"bases/a.mp4", "bases/b.mov", "bases/notes.txt"} -> "bases"
      [] f = "clips/todo.txt" -> "clips"
      [] OTHER -> "."

\* The extension of a file name.
ExtOf(f) ==
    CASE f \in {"bases/a.mp4", "temp.mp4", "final.mp4", "out.mp4"} -> ".mp4"
      [] f = "bases/b.mov" -> ".mov"
      [] f = "audio.mp3" -> ".mp3"
      [] f = "sub.srt" -> ".srt"
      [] OTHER -> ".txt"

Unset == 0 - 1

\* The durations a probe can report, in grid units.
Durations == 0 .. MaxDur

\* A file that does not exist.
NoFile == [kind |-> "none", writer |-> 0, whole |-> FALSE]

\* A file: what it holds, the process whose current invocation wrote it
\* (0: it was there before) and whether it was written to the end.
File(kind, writer, whole) ==
    [kind |-> kind, writer |-> writer, whole |-> whole]

Exists(f, disk) == disk[f].kind # "none"

VARIABLES
    fs,             \* the disk: path -> file
    pc,             \* per process: where the invocation stands
    args,           \* per process: the parsed command line
    nexts,          \* per process: the number of [NEXT] lines printed
    calls,          \* per process: the operations started, in order
    reads,          \* per process: the temporary files read, with their state
    err,            \* per process: the exception that ended the invocation
    videoFile,      \* per process: the selected source video
    audioDuration,  \* per process: the probed narration duration
    videoDuration,  \* per process: the probed source-video duration
    clipReq,        \* per process: the window requested from the encoder
    segments,       \* the transcript: the segments the transcription yields
    maxWordsPerSegment, \* generateSubtitles' group size
    newSegments,    \* generateSubtitles' result: the cues (start, end, text)
    srt,            \* the lines generateSubtitleFile writes
    subStage        \* where the subtitle computation stands

pipeVars == <<fs, pc, args, nexts, calls, reads, err, videoFile, audioDuration,
              videoDuration, clipReq>>

subVars == <<segments, maxWordsPerSegment, newSegments, srt, subStage>>

vars == <<pipeVars, subVars>>

\* Python's None, the default of -s and -p.
None == "None"

\* Values of -p: not given, the empty text, a text.
PromptChoices == {None, "", "a prompt"}

\* The names of PROMPT_STEP and of the steps of STEPS (without accents).
PROMPT_STEP == "Prompt"

STEPS ==
    << "Acquisition de la demande", "Generation de la piste son",
       "Separation des sous-titres", "Generation du clip video",
       "Ajout de l'audio au clip", "Nettoyage des fichiers temporaires",
       "Fin de la generation" >>

\* script: -s is given; prompt: the value of -p.
NoArgs == [script |-> FALSE, prompt |-> None, output |-> FINAL_VIDEO_FILE,
           videos |-> VIDEO_DATABASE]

NoClip == [ss |-> Unset, t |-> Unset]


(* ----------------------- exact rational numbers ----------------------- *)

RECURSIVE Gcd(_, _)
Gcd(a, b) == IF b = 0 THEN a ELSE Gcd(b, a % b)

Abs(x) == IF x < 0 THEN 0 - x ELSE x

\* The rational n/d (d > 0) in lowest terms.
Rat(n, d) ==
    LET g == Gcd(Abs(n), d) IN [n |-> n \div g, d |-> d \div g]

RInt(x) == [n |-> x, d |-> 1]

RAdd(a, b) == Rat(a.n * b.d + b.n * a.d, a.d * b.d)

RSub(a, b) == Rat(a.n * b.d - b.n * a.d, a.d * b.d)

\* a * i and a / i for an integer i (i > 0 for the division).
RTimes(a, i) == Rat(a.n * i, a.d)

ROver(a, i) == Rat(a.n, a.d * i)

RLe(a, b) == a.n * b.d <= b.n * a.d

RLt(a, b) == a.n * b.d < b.n * a.d

\* Python's min(a, b): b when b < a, else a.
RMin(a, b) == IF RLt(b, a) THEN b ELSE a

\* int(a) for a >= 0.
RFloor(a) == a.n \div a.d

(* ----------------------- floating-point numbers ----------------------- *)

RECURSIVE Pow2(_)
Pow2(i) == IF i <= 0 THEN 1 ELSE 2 * Pow2(i - 1)

RECURSIVE Normalize(_, _, _)
\* n/d = (n'/d') * 2^e with 2^(Precision-1) <= n'/d' < 2^Precision, for n > 0.
Normalize(n, d, e) ==
    IF n >= Pow2(Precision) * d THEN Normalize(n, 2 * d, e + 1)
    ELSE IF n < Pow2(Precision - 1) * d THEN Normalize(2 * n, d, e - 1)
    ELSE <<n, d, e>>

\* The float nearest to the rational a, ties to the even significand.
Fl(a) ==
    IF a.n = 0 THEN a
    ELSE LET nde == Normalize(Abs(a.n), a.d, 0)
             m == nde[1] \div nde[2]
             twice == 2 * (nde[1] % nde[2])
             up == IF twice > nde[2] \/ (twice = nde[2] /\ m % 2 = 1) THEN 1 ELSE 0
             sign == IF a.n < 0 THEN 0 - 1 ELSE 1
         IN  IF nde[3] >= 0
               THEN Rat(sign * (m + up) * Pow2(nde[3]), 1)
               ELSE Rat(sign * (m + up), Pow2(0 - nde[3]))

\* Python's a + b, a - b, a * i and a / i on floats (i an int).
FAdd(a, b) == Fl(RAdd(a, b))

FSub(a, b) == Fl(RSub(a, b))

FTimes(a, i) == Fl(RTimes(a, i))

FOver(a, i) == Fl(ROver(a, i))

(* ------------------------- subtitle functions ------------------------- *)

\* The characters str.split() splits on.
IsSpace(c) == c \in {" ", "\t", "\n"}

RECURSIVE SplitRec(_, _, _)
SplitRec(text, cur, acc) ==
    IF text = <<>>
      THEN IF cur = <<>> THEN acc ELSE Append(acc, cur)
    ELSE IF IsSpace(Head(text))
      THEN SplitRec(Tail(text), <<>>, IF cur = <<>> THEN acc ELSE Append(acc, cur))
    ELSE SplitRec(Tail(text), Append(cur, Head(text)), acc)

\* segment.text.split(): the maximal runs of characters that are not
\* whitespace, in order.  A text is a sequence of characters.
Split(text) == SplitRec(text, <<>>, <<>>)

RECURSIVE Join(_)
\* " ".join(words)
Join(words) ==
    IF words = <<>> THEN <<>>
    ELSE IF Len(words) = 1 THEN words[1]
    ELSE words[1] \o <<" ">> \o Join(Tail(words))

\* words[i:j] for 0 <= i <= j.
Slice(words, i, j) ==
    SubSeq(words, i + 1, IF j < Len(words) THEN j ELSE Len(words))

RECURSIVE RangeByOne(_, _, _)
\* A loop over every word instead of every k-th: range(i, n).
RangeByOne(i, n, k) == IF i >= n THEN <<>> ELSE <<i>> \o RangeByOne(i + 1, n, k)

RECURSIVE Range(_, _, _)
\* range(i, n, k)
Range(i, n, k) == IF i >= n THEN <<>> ELSE <<i>> \o Range(i + k, n, k)

\* One unit per word where the segment has no duration.
DurationPerWordDefaultOne(seg, words) ==
    IF words # <<>> /\ RLt(seg.start, seg.end)
      THEN FOver(FSub(seg.end, seg.start), Len(words))
      ELSE RInt(1)

\* The duration counted from time 0 instead of the segment's start.
DurationPerWordFromZero(seg, words) ==
    IF words # <<>> THEN FOver(seg.end, Len(words)) ELSE RInt(0)

\* durationPerWord = (endTime - startTime) / len(words) if words else 0
DurationPerWord(seg, words) ==
    IF words # <<>> THEN FOver(FSub(seg.end, seg.start), Len(words)) ELSE RInt(0)

\* The cue with the segment's end as its end.
SubSegmentToSegmentEnd(seg, words, i, k) ==
    LET durationPerWord == DurationPerWord(seg, words)
        subText == Join(Slice(words, i, i + k))
        subStart == FAdd(seg.start, FTimes(durationPerWord, i))
    IN  <<subStart, seg.end, subText>>

\* The cue without the clamp of its end to the segment's end.
SubSegmentUnclamped(seg, words, i, k) ==
    LET durationPerWord == DurationPerWord(seg, words)
        subText == Join(Slice(words, i, i + k))
        subStart == FAdd(seg.start, FTimes(durationPerWord, i))
        subEnd == FAdd(seg.start, FTimes(durationPerWord, i + k))
    IN  <<subStart, subEnd, subText>>

\* The cue of the window that starts at word i: (subStart, subEnd, subText).
SubSegment(seg, words, i, k) ==
    LET durationPerWord == DurationPerWord(seg, words)
        subText == Join(Slice(words, i, i + k))
        subStart == FAdd(seg.start, FTimes(durationPerWord, i))
        subEnd == RMin(FAdd(seg.start, FTimes(durationPerWord, i + k)), seg.end)
    IN  <<subStart, subEnd, subText>>

\* The cues of one segment: the body of generateSubtitles' outer loop.
SegmentCues(seg, k) ==
    LET words == Split(seg.text)
        starts == Range(0, Len(words), k)
    IN  [j \in 1 .. Len(starts) |-> SubSegment(seg, words, starts[j], k)]

RECURSIVE generateSubtitles(_, _)
\* generateSubtitles' newSegments for the segments of the transcription.
generateSubtitles(segs, k) ==
    IF segs = <<>> THEN <<>>
    ELSE SegmentCues(Head(segs), k) \o generateSubtitles(Tail(segs), k)

RECURSIVE DigitsOf(_)
DigitsOf(n) == IF n < 10 THEN <<n>> ELSE Append(DigitsOf(n \div 10), n % 10)

RECURSIVE PadLeft(_, _)
PadLeft(ds, width) == IF Len(ds) >= width THEN ds ELSE PadLeft(<<0>> \o ds, width)

\* f"{n:0w}": the decimal digits of n >= 0, zero-padded to at least w digits.
Padded(n, width) == PadLeft(DigitsOf(n), width)

\* formatTime with the minutes taken of the whole time, not of the hour.
formatTimeMinutesOfAll(seconds) ==
    LET millisec == ((seconds.n % seconds.d) * 1000) \div seconds.d
        hours == RFloor(seconds) \div 3600
        minutes == RFloor(seconds) \div 60
        sec == RFloor(seconds) % 60
    IN  [h |-> Padded(hours, 2), m |-> Padded(minutes, 2),
         s |-> Padded(sec, 2), ms |-> Padded(millisec, 3)]

\* formatTime(seconds) for seconds >= 0: the digits of the four fields of
\* HH:MM:SS,mmm.  The time is a whole number of milliseconds or a float
\* whose product with 1000 is exact, so the product is not rounded.
formatTime(seconds) ==
    LET millisec == ((seconds.n % seconds.d) * 1000) \div seconds.d
        hours == RFloor(seconds) \div 3600
        minutes == (RFloor(seconds) % 3600) \div 60
        sec == RFloor(seconds) % 60
    IN  [h |-> Padded(hours, 2), m |-> Padded(minutes, 2),
         s |-> Padded(sec, 2), ms |-> Padded(millisec, 3)]

\* The block numbered with enumerate's index as it is, from 0.
SrtBlockFromZero(index, segment) ==
    <<  <<index>>,
        <<formatTime(segment[1]), "-->", formatTime(segment[2])>>,
        segment[3],
        <<>>  >>

\* The four lines of the block of cue `segment` at position index (from 0):
\* the number, the two times, the text, an empty line.
SrtBlock(index, segment) ==
    <<  <<index + 1>>,
        <<formatTime(segment[1]), "-->", formatTime(segment[2])>>,
        segment[3],
        <<>>  >>

RECURSIVE SrtFrom(_, _)
SrtFrom(index, segs) ==
    IF segs = <<>> THEN <<>>
    ELSE SrtBlock(index, Head(segs)) \o SrtFrom(index + 1, Tail(segs))

RECURSIVE InsertByStart(_, _)
InsertByStart(cue, sorted) ==
    IF sorted = <<>> THEN <<cue>>
    ELSE IF RLt(cue[1], Head(sorted)[1]) THEN <<cue>> \o sorted
    ELSE <<Head(sorted)>> \o InsertByStart(cue, Tail(sorted))

RECURSIVE SortByStart(_)
SortByStart(segs) ==
    IF segs = <<>> THEN <<>>
    ELSE InsertByStart(segs[Len(segs)], SortByStart(SubSeq(segs, 1, Len(segs) - 1)))

\* The file of the cues sorted by their start.
generateSubtitleFileSorted(segs) == SrtFrom(0, SortByStart(segs))

\* The text generateSubtitleFile writes, line by line.
generateSubtitleFile(segs) == SrtFrom(0, segs)

(* ------------------------- pipeline functions ------------------------- *)

\* getRandomVideo without the test of the extension.
VideoFilesAnyFile(folder, disk) ==
    {f \in Paths : Exists(f, disk) /\ DirOf(f) = folder}

\* getRandomVideo's list of candidates: the files of the folder that end in
\* .mp4, .avi or .mov.
VideoFiles(folder, disk) ==
    {f \in Paths : /\ Exists(f, disk)
                   /\ DirOf(f) = folder
                   /\ ExtOf(f) \in {".mp4", ".avi", ".mov"}}

\* The test of the durations the wrong way round.
TooShortReversed(vd, ad) == ad < vd

\* generateClip's test before it raises "La video de base doit etre au moins
\* aussi longue que l'audio".
TooShort(vd, ad) == vd < ad

\* random.uniform(a, b) = a + (b - a) * random(): any point between a and b
\* (on the grid).
Uniform(a, b) == IF a <= b THEN a .. b ELSE b .. a

\* A start drawn from the whole source video.
ClipWindowsAnyStart(vd, ad) == {[ss |-> s, t |-> ad] : s \in Uniform(0, vd)}

\* The window generateClip asks the encoder for: ss=startTime, t=audioDuration.
ClipWindows(vd, ad) == {[ss |-> s, t |-> ad] : s \in Uniform(0, vd - ad)}

\* generateVideo with the clip extracted before the subtitle file is written.
AfterClipFirst(step) ==
    CASE step = "synth" -> "transcribe"
      [] step = "transcribe" -> "select"
      [] step = "select" -> "probeAudio"
      [] step = "probeAudio" -> "probeVideo"
      [] step = "probeVideo" -> "encode"
      [] step = "encode" -> "writeSrt"
      [] step = "writeSrt" -> "mux"
      [] step = "mux" -> "rmAudio"
      [] step = "rmAudio" -> "rmSrt"
      [] step = "rmSrt" -> "rmVideo"
      [] step = "rmVideo" -> "done"

\* The order of generateVideo's steps.
After(step) ==
    CASE step = "synth" -> "transcribe"
      [] step = "transcribe" -> "writeSrt"
      [] step = "writeSrt" -> "select"
      [] step = "select" -> "probeAudio"
      [] step = "probeAudio" -> "probeVideo"
      [] step = "probeVideo" -> "encode"
      [] step = "encode" -> "mux"
      [] step = "mux" -> "rmAudio"
      [] step = "rmAudio" -> "rmSrt"
      [] step = "rmSrt" -> "rmVideo"
      [] step = "rmVideo" -> "done"

\* What a step that reads file f finds: the file of this invocation, written
\* to the end ("own"), no file ("absent"), or something else ("foreign").
ReadState(p, f, disk) ==
    IF ~Exists(f, disk) THEN "absent"
    ELSE IF disk[f].writer = p /\ disk[f].whole THEN "own"
    ELSE "foreign"

ReadsOf(p, step, files, disk) ==
    {[step |-> step, file |-> f, state |-> ReadState(p, f, disk)] : f \in files}

\* How an external call that reads `files` can end: it raises when one of
\* them is missing, and may raise anyway.
Outcomes(files, disk) ==
    IF \A f \in files : Exists(f, disk) THEN {"ok", "raise"} ELSE {"raise"}

\* What a failed write leaves at path f: the file as it was, or a file
\* written in part.
FailedWrite(p, f, kind, disk) ==
    {disk, [disk EXCEPT ![f] = File(kind, p, FALSE)]}

(* ------------------------------ actions ------------------------------- *)

\* A disk with no file of an earlier run: the library's text files and the
\* given library videos.
Disk(videos) ==
    [f \in Paths |-> IF f \in videos THEN File("video", 0, TRUE)
                     ELSE IF f \in LibraryFiles \ LibraryVideos THEN File("text", 0, TRUE)
                     ELSE NoFile]

\* No subtitle computation is followed.
NoSubtitles ==
    /\ segments = <<>>
    /\ maxWordsPerSegment = 5
    /\ newSegments = <<>>
    /\ srt = <<>>
    /\ subStage = "none"

\* No process has been started.
NoProcess ==
    /\ pc = [p \in Procs |-> "idle"]
    /\ args = [p \in Procs |-> NoArgs]
    /\ nexts = [p \in Procs |-> 0]
    /\ calls = [p \in Procs |-> <<>>]
    /\ reads = [p \in Procs |-> {}]
    /\ err = [p \in Procs |-> "none"]
    /\ videoFile = [p \in Procs |-> "none"]
    /\ audioDuration = [p \in Procs |-> Unset]
    /\ videoDuration = [p \in Procs |-> Unset]
    /\ clipReq = [p \in Procs |-> NoClip]

Init ==
    /\ fs \in {Disk(videos) : videos \in SUBSET LibraryVideos}
    /\ NoProcess
    /\ NoSubtitles

\* A first exception caught and the stage run again.
RaiseAfterOneRetry(p, e) ==
    /\ pc' = [pc EXCEPT ![p] = IF err[p] = "none" THEN @ ELSE "failed"]
    /\ err' = [err EXCEPT ![p] = e]

\* An exception leaves generateVideo and __main__ re-raises it: the
\* invocation is over.
Raise(p, e) ==
    /\ pc' = [pc EXCEPT ![p] = "failed"]
    /\ err' = [err EXCEPT ![p] = e]

\* The check without the test for both sources.
CheckArgsMissingOnly(s, q) ==
    IF ~s /\ q = None THEN "Exception: no script or prompt" ELSE "none"

\* The two checks of the script source: the exception raised, "none" when
\* exactly one of -s and -p is given.
CheckArgs(s, q) ==
    IF ~s /\ q = None THEN "Exception: no script or prompt"
    ELSE IF s /\ q # None THEN "Exception: script and prompt"
    ELSE "none"

\* The step list printSteps prints: STEPS, with PROMPT_STEP inserted at index
\* 1 when the prompt is truthy (neither None nor empty).
printSteps(prompt) ==
    IF prompt \notin {None, ""} THEN <<STEPS[1], PROMPT_STEP>> \o Tail(STEPS)
    ELSE STEPS

\* python main.py ...: the command line is parsed and checked, the step list
\* and the first [NEXT] are printed.  What earlier invocations of the process
\* wrote is from now on a file that was there before.
Invoke(p) ==
    /\ pc[p] \in {"idle", "done", "failed"}
    /\ \E s \in BOOLEAN, q \in PromptChoices, o \in OutputChoices, v \in FolderChoices :
         /\ args' = [args EXCEPT ![p] = [script |-> s, prompt |-> q, output |-> o, videos |-> v]]
         /\ IF CheckArgs(s, q) # "none"
              THEN /\ pc' = [pc EXCEPT ![p] = "failed"]
                   /\ err' = [err EXCEPT ![p] = CheckArgs(s, q)]
                   /\ nexts' = [nexts EXCEPT ![p] = 0]
              ELSE /\ pc' = [pc EXCEPT ![p] = IF q # None THEN "prompt" ELSE "readScript"]
                   /\ err' = [err EXCEPT ![p] = "none"]
                   /\ nexts' = [nexts EXCEPT ![p] = 1]
    /\ fs' = [f \in Paths |-> IF fs[f].writer = p THEN [fs[f] EXCEPT !.writer = 0] ELSE fs[f]]
    /\ calls' = [calls EXCEPT ![p] = <<>>]
    /\ reads' = [reads EXCEPT ![p] = {}]
    /\ videoFile' = [videoFile EXCEPT ![p] = "none"]
    /\ audioDuration' = [audioDuration EXCEPT ![p] = Unset]
    /\ videoDuration' = [videoDuration EXCEPT ![p] = Unset]
    /\ clipReq' = [clipReq EXCEPT ![p] = NoClip]
    /\ UNCHANGED subVars

\* generateVideoFromScriptFile: the script file is read.
ReadScript(p) ==
    /\ pc[p] = "readScript"
    /\ \E r \in {"ok", "raise"} :
         IF r = "ok"
           THEN /\ pc' = [pc EXCEPT ![p] = "synth"]
                /\ err' = err
           ELSE Raise(p, "FileNotFoundError: script")
    /\ UNCHANGED subVars
    /\ UNCHANGED <<fs, args, nexts, calls, reads, videoFile, audioDuration,
                   videoDuration, clipReq>>

\* generateVideoFromPrompt: the script is generated, then [NEXT].
Prompt(p) ==
    /\ pc[p] = "prompt"
    /\ calls' = [calls EXCEPT ![p] = Append(@, "generate")]
    /\ \E r \in {"ok", "raise"} :
         IF r = "ok"
           THEN /\ pc' = [pc EXCEPT ![p] = "synth"]
                /\ nexts' = [nexts EXCEPT ![p] = @ + 1]
                /\ err' = err
           ELSE /\ Raise(p, "generate failed")
                /\ nexts' = nexts
    /\ UNCHANGED subVars
    /\ UNCHANGED <<fs, args, reads, videoFile, audioDuration, videoDuration, clipReq>>

\* generateAudio(TEMP_AUDIO_FILE, text), then [NEXT].
Synth(p) ==
    /\ pc[p] = "synth"
    /\ calls' = [calls EXCEPT ![p] = Append(@, "synthesize")]
    /\ \E r \in {"ok", "raise"} :
         IF r = "ok"
           THEN /\ fs' = [fs EXCEPT ![TEMP_AUDIO_FILE] = File("audio", p, TRUE)]
                /\ pc' = [pc EXCEPT ![p] = After("synth")]
                /\ nexts' = [nexts EXCEPT ![p] = @ + 1]
                /\ err' = err
           ELSE /\ fs' \in FailedWrite(p, TEMP_AUDIO_FILE, "audio", fs)
                /\ Raise(p, "synthesis failed")
                /\ nexts' = nexts
    /\ UNCHANGED subVars
    /\ UNCHANGED <<args, reads, videoFile, audioDuration, videoDuration, clipReq>>

\* generateSubtitles(TEMP_AUDIO_FILE): the narration is transcribed.
Transcribe(p) ==
    /\ pc[p] = "transcribe"
    /\ calls' = [calls EXCEPT ![p] = Append(@, "transcribe")]
    /\ reads' = [reads EXCEPT ![p] = @ \cup ReadsOf(p, "transcribe", {TEMP_AUDIO_FILE}, fs)]
    /\ \E r \in Outcomes({TEMP_AUDIO_FILE}, fs) :
         IF r = "ok"
           THEN /\ pc' = [pc EXCEPT ![p] = After("transcribe")]
                /\ err' = err
           ELSE Raise(p, "transcription failed")
    /\ UNCHANGED subVars
    /\ UNCHANGED <<fs, args, nexts, videoFile, audioDuration, videoDuration, clipReq>>

\* generateSubtitleFile(TEMP_SRT_FILE, segments), then [NEXT].
WriteSrt(p) ==
    /\ pc[p] = "writeSrt"
    /\ calls' = [calls EXCEPT ![p] = Append(@, "writeSrt")]
    /\ \E r \in {"ok", "raise"} :
         IF r = "ok"
           THEN /\ fs' = [fs EXCEPT ![TEMP_SRT_FILE] = File("srt", p, TRUE)]
                /\ pc' = [pc EXCEPT ![p] = After("writeSrt")]
                /\ nexts' = [nexts EXCEPT ![p] = @ + 1]
                /\ err' = err
           ELSE /\ fs' \in FailedWrite(p, TEMP_SRT_FILE, "srt", fs)
                /\ Raise(p, "OSError: subtitle file")
                /\ nexts' = nexts
    /\ UNCHANGED subVars
    /\ UNCHANGED <<args, reads, videoFile, audioDuration, videoDuration, clipReq>>

\* getRandomVideo(VIDEO_DATABASE).
Select(p) ==
    /\ pc[p] = "select"
    /\ calls' = [calls EXCEPT ![p] = Append(@, "select")]
    /\ IF VideoFiles(args[p].videos, fs) = {}
         THEN /\ Raise(p, "FileNotFoundError: no video")
              /\ videoFile' = videoFile
         ELSE /\ \E v \in VideoFiles(args[p].videos, fs) :
                   videoFile' = [videoFile EXCEPT ![p] = v]
              /\ pc' = [pc EXCEPT ![p] = After("select")]
              /\ err' = err
    /\ UNCHANGED subVars
    /\ UNCHANGED <<fs, args, nexts, reads, audioDuration, videoDuration, clipReq>>

\* generateClip: getAudioDuration(audioFile).
ProbeAudio(p) ==
    /\ pc[p] = "probeAudio"
    /\ calls' = [calls EXCEPT ![p] = Append(@, "probeAudio")]
    /\ reads' = [reads EXCEPT ![p] = @ \cup ReadsOf(p, "probeAudio", {TEMP_AUDIO_FILE}, fs)]
    /\ \E r \in Outcomes({TEMP_AUDIO_FILE}, fs) \cup {"nostream"}, d \in Durations :
         IF r = "ok"
           THEN /\ audioDuration' = [audioDuration EXCEPT ![p] = d]
                /\ pc' = [pc EXCEPT ![p] = After("probeAudio")]
                /\ err' = err
           ELSE /\ Raise(p, IF r = "nostream" THEN "ValueError: no audio stream"
                                              ELSE "ffmpeg.Error: probe")
                /\ audioDuration' = audioDuration
    /\ UNCHANGED subVars
    /\ UNCHANGED <<fs, args, nexts, videoFile, videoDuration, clipReq>>

\* generateClip: the probe of the source video and the test of its duration.
ProbeVideo(p) ==
    /\ pc[p] = "probeVideo"
    /\ calls' = [calls EXCEPT ![p] = Append(@, "probeVideo")]
    /\ \E r \in Outcomes({videoFile[p]}, fs) \cup {"nostream"}, d \in Durations :
         IF r = "ok"
           THEN /\ videoDuration' = [videoDuration EXCEPT ![p] = d]
                /\ IF TooShort(d, audioDuration[p])
                     THEN Raise(p, "ValueError: video shorter than audio")
                     ELSE /\ pc' = [pc EXCEPT ![p] = After("probeVideo")]
                          /\ err' = err
           ELSE /\ Raise(p, IF r = "nostream" THEN "ValueError: no video stream"
                                              ELSE "ffmpeg.Error: probe")
                /\ videoDuration' = videoDuration
    /\ UNCHANGED subVars
    /\ UNCHANGED <<fs, args, nexts, reads, videoFile, audioDuration, clipReq>>

\* generateClip: the random start, and the encoder's run that writes the
\* silent clip with the subtitles burnt in; then [NEXT].
Encode(p) ==
    /\ pc[p] = "encode"
    /\ calls' = [calls EXCEPT ![p] = Append(@, "encode")]
    /\ reads' = [reads EXCEPT ![p] = @ \cup ReadsOf(p, "encode", {TEMP_SRT_FILE}, fs)]
    /\ \E w \in ClipWindows(videoDuration[p], audioDuration[p]) :
         clipReq' = [clipReq EXCEPT ![p] = w]
    /\ \E r \in Outcomes({videoFile[p], TEMP_SRT_FILE}, fs) :
         IF r = "ok"
           THEN /\ fs' = [fs EXCEPT ![TEMP_VIDEO_FILE] = File("clip", p, TRUE)]
                /\ pc' = [pc EXCEPT ![p] = After("encode")]
                /\ nexts' = [nexts EXCEPT ![p] = @ + 1]
                /\ err' = err
           ELSE /\ fs' \in FailedWrite(p, TEMP_VIDEO_FILE, "clip", fs)
                /\ Raise(p, "ffmpeg.Error: encode")
                /\ nexts' = nexts
    /\ UNCHANGED subVars
    /\ UNCHANGED <<args, videoFile, audioDuration, videoDuration>>

\* addAudio(TEMP_VIDEO_FILE, TEMP_AUDIO_FILE, FINAL_VIDEO_FILE), then [NEXT].
Mux(p) ==
    /\ pc[p] = "mux"
    /\ calls' = [calls EXCEPT ![p] = Append(@, "mux")]
    /\ reads' = [reads EXCEPT ![p] =
                   @ \cup ReadsOf(p, "mux", {TEMP_VIDEO_FILE, TEMP_AUDIO_FILE}, fs)]
    /\ \E r \in Outcomes({TEMP_VIDEO_FILE, TEMP_AUDIO_FILE}, fs) :
         IF r = "ok"
           THEN /\ fs' = [fs EXCEPT ![args[p].output] =
                            File("final", p, TRUE)]
                /\ pc' = [pc EXCEPT ![p] = After("mux")]
                /\ nexts' = [nexts EXCEPT ![p] = @ + 1]
                /\ err' = err
           ELSE /\ fs' \in FailedWrite(p, args[p].output, "final", fs)
                /\ Raise(p, "mux failed")
                /\ nexts' = nexts
    /\ UNCHANGED subVars
    /\ UNCHANGED <<args, videoFile, audioDuration, videoDuration, clipReq>>

\* os.remove(f) at step `step` of the cleanup.
Remove(p, step, f) ==
    /\ pc[p] = step
    /\ calls' = [calls EXCEPT ![p] = Append(@, step)]
    /\ \E r \in Outcomes({f}, fs) :
         IF r = "ok"
           THEN /\ fs' = [fs EXCEPT ![f] = NoFile]
                /\ pc' = [pc EXCEPT ![p] = After(step)]
                /\ nexts' = [nexts EXCEPT ![p] = IF After(step) = "done" THEN @ + 1 ELSE @]
                /\ err' = err
           ELSE /\ fs' = fs
                /\ Raise(p, "OSError: remove")
                /\ nexts' = nexts
    /\ UNCHANGED subVars
    /\ UNCHANGED <<args, reads, videoFile, audioDuration, videoDuration, clipReq>>

\* os.remove(TEMP_AUDIO_FILE).
RmAudio(p) == Remove(p, "rmAudio", TEMP_AUDIO_FILE)

\* os.remove(TEMP_SRT_FILE).
RmSrt(p) == Remove(p, "rmSrt", TEMP_SRT_FILE)

\* os.remove(TEMP_VIDEO_FILE), then the last [NEXT].
RmVideo(p) == Remove(p, "rmVideo", TEMP_VIDEO_FILE)

Step(p) ==
    \/ Invoke(p)
    \/ ReadScript(p)
    \/ Prompt(p)
    \/ Synth(p)
    \/ Transcribe(p)
    \/ WriteSrt(p)
    \/ Select(p)
    \/ ProbeAudio(p)
    \/ ProbeVideo(p)
    \/ Encode(p)
    \/ Mux(p)
    \/ RmAudio(p)
    \/ RmSrt(p)
    \/ RmVideo(p)

Next == \E p \in SerialProcs : Step(p)

Spec == Init /\ [][Next]_vars

(* ------------------------ two runs at a time -------------------------- *)

\* python main.py -s script.txt [-o out.mp4], once per process: a run with
\* the temporary paths of lines 55-57 and an output of its own.
Launch(p) ==
    /\ pc[p] = "idle"
    /\ Invoke(p)
    /\ args'[p] = [script |-> TRUE, prompt |-> None,
                   output |-> IF p = 1 THEN FINAL_VIDEO_FILE ELSE "out.mp4",
                   videos |-> VIDEO_DATABASE]

StepConc(p) ==
    \/ Launch(p)
    \/ ReadScript(p)
    \/ Synth(p)
    \/ Transcribe(p)
    \/ WriteSrt(p)
    \/ Select(p)
    \/ ProbeAudio(p)
    \/ ProbeVideo(p)
    \/ Encode(p)
    \/ Mux(p)
    \/ RmAudio(p)
    \/ RmSrt(p)
    \/ RmVideo(p)

\* The library holds one video.
InitConc ==
    /\ fs = Disk({"bases/a.mp4"})
    /\ NoProcess
    /\ NoSubtitles

NextConc == \E p \in Procs : StepConc(p)

\* Two processes run main.py in the same directory, their steps in any order.
ConcSpec == InitConc /\ [][NextConc]_vars

(* ----------------------- the pipeline's properties -------------------- *)

\* The operations process p has started in this invocation.
Ops(p) == {calls[p][i] : i \in 1 .. Len(calls[p])}

\* File f is there and this invocation of p wrote it.
Own(p, f) == Exists(f, fs) /\ fs[f].writer = p

IsPrefix(a, b) == Len(a) <= Len(b) /\ a = SubSeq(b, 1, Len(a))

\* The operations of generateVideo, in the order of the stages: audio
\* synthesis, transcription, subtitle file, clip extraction (selection, two
\* probes, encoding), audio mux, cleanup (three removals).
StageOrder ==
    << "synthesize", "transcribe", "writeSrt", "select", "probeAudio",
       "probeVideo", "encode", "mux", "rmAudio", "rmSrt", "rmVideo" >>

\* The operations of generateVideo that p has started: calls without the
\* script generation of prompt mode.
PipelineCalls(p) ==
    IF calls[p] # <<>> /\ Head(calls[p]) = "generate" THEN Tail(calls[p]) ELSE calls[p]

\* The temporary files an operation reads.
InputsOf(op) ==
    CASE op \in {"transcribe", "probeAudio"} -> {TEMP_AUDIO_FILE}
      [] op = "encode" -> {TEMP_SRT_FILE}
      [] op = "mux" -> {TEMP_VIDEO_FILE, TEMP_AUDIO_FILE}
      [] OTHER -> {}

NoVideoError == "FileNotFoundError: no video"

ShortVideoError == "ValueError: video shorter than audio"

\* C1: when a stage of generateVideo fails, no temporary file that an earlier
\* stage of the run wrote is still there when the error reaches the caller.
C1_FailureLeavesNoTemporaryFile ==
    \A p \in Procs :
        pc[p] = "failed" =>
            \A f \in TempFiles : ~(Own(p, f) /\ fs[f].whole)

\* C2: once a run is done, the final output file and the selected source
\* video still exist, whatever -o and -v were: the cleanup removed the three
\* temporary files and nothing else.
C2_CleanupKeepsOutputAndSource ==
    \A p \in Procs :
        pc[p] = "done" =>
            /\ Exists(args[p].output, fs)
            /\ Exists(videoFile[p], fs)

\* C3: the operations of a run are started in the order of the stages, none
\* skipped, and every temporary file an operation reads was written to the end
\* by an earlier stage of the same run and is still there.
C3_StagesInOrder ==
    \A p \in Procs :
        /\ IsPrefix(PipelineCalls(p), StageOrder)
        /\ pc[p] = "done" => PipelineCalls(p) = StageOrder
        /\ \A op \in Ops(p) : {r.file : r \in {x \in reads[p] : x.step = op}} = InputsOf(op)
        /\ \A r \in reads[p] : r.state = "own"

\* A run that went through every stage.
C3_Witness ==
    /\ pc[1] = "done"
    /\ Cardinality(reads[1]) = 5

\* There is no video in the folder: no file of it ends in .mp4, .avi or .mov.
NoVideoIn(folder) ==
    \A f \in Paths :
        Exists(f, fs) /\ DirOf(f) = folder => ExtOf(f) \notin {".mp4", ".avi", ".mov"}

\* C4, as claimed: a run that fails with the no-source-video error has made no
\* synthesis, transcription or encoding call and has written no temporary file.
C4_FailsBeforeAnyCall ==
    \A p \in Procs :
        err[p] = NoVideoError =>
            /\ Ops(p) \cap {"synthesize", "transcribe", "encode"} = {}
            /\ \A f \in TempFiles : ~Own(p, f)

\* C4, amended: when the selection finds no file ending in .mp4, .avi or .mov
\* in the folder the run fails with the no-source-video error, and it has
\* then called the synthesis and the transcription and written the narration
\* audio and the subtitle file, but made no probe, encoding or mux call and
\* written no silent clip.
C4_FailsBeforeClipExtraction ==
    \A p \in Procs :
        /\ "select" \in Ops(p) /\ NoVideoIn(args[p].videos) =>
               pc[p] = "failed" /\ err[p] = NoVideoError
        /\ err[p] = NoVideoError =>
               /\ NoVideoIn(args[p].videos)
               /\ PipelineCalls(p) = <<"synthesize", "transcribe", "writeSrt", "select">>
               /\ Own(p, TEMP_AUDIO_FILE) /\ Own(p, TEMP_SRT_FILE)
               /\ ~Own(p, TEMP_VIDEO_FILE)
               /\ ~Own(p, args[p].output)

\* A run that failed for want of a source video.
C4_Witness ==
    /\ pc[1] = "failed"
    /\ err[1] = NoVideoError
    /\ args[1].videos = "clips"

\* C5: the file at the output path that a run has written is, when the run
\* has ended, the whole result of the audio mux, and the mux succeeded (stated
\* for an output path that is none of the temporary files).
C5_OutputOnlyFromSuccessfulMux ==
    \A p \in Procs :
        ( /\ pc[p] \in {"done", "failed"}
          /\ args[p].output \notin TempFiles
          /\ Own(p, args[p].output) ) =>
            /\ fs[args[p].output].kind = "final"
            /\ fs[args[p].output].whole
            /\ "rmAudio" \in Ops(p)

\* Position of the first occurrence of op in calls[p] (0: none).
PositionOf(p, op) ==
    IF op \in Ops(p)
      THEN CHOOSE i \in 1 .. Len(calls[p]) :
               calls[p][i] = op /\ \A j \in 1 .. i - 1 : calls[p][j] # op
      ELSE 0

\* C6: when the probed source video is shorter than the probed narration the
\* run has failed with the insufficient-duration error, the encoder was not
\* invoked and the run has written neither a silent clip nor an output; the
\* encoder is invoked only after the audio probe and then the video probe
\* succeeded, with videoDuration >= audioDuration.
C6_ShortVideoAborts ==
    \A p \in Procs :
        /\ ( /\ audioDuration[p] # Unset
             /\ videoDuration[p] # Unset
             /\ videoDuration[p] < audioDuration[p] ) =>
               /\ pc[p] = "failed"
               /\ err[p] = ShortVideoError
               /\ {"encode", "mux"} \cap Ops(p) = {}
               /\ ~Own(p, TEMP_VIDEO_FILE)
               /\ ~Own(p, args[p].output)
        /\ "encode" \in Ops(p) =>
               /\ 0 < PositionOf(p, "probeAudio")
               /\ PositionOf(p, "probeAudio") < PositionOf(p, "probeVideo")
               /\ PositionOf(p, "probeVideo") < PositionOf(p, "encode")
               /\ audioDuration[p] # Unset
               /\ videoDuration[p] # Unset
               /\ videoDuration[p] >= audioDuration[p]
        /\ err[p] = ShortVideoError => videoDuration[p] < audioDuration[p]

\* A run that the duration test ended.
C6_Witness ==
    /\ pc[1] = "failed"
    /\ err[1] = ShortVideoError
    /\ videoDuration[1] < audioDuration[1]

\* C7: the window asked of the encoder starts in [0, videoDuration -
\* audioDuration], lasts exactly audioDuration and ends within the source
\* video; when the two durations are equal it starts at 0.
C7_WindowFits ==
    \A p \in Procs :
        clipReq[p] # NoClip =>
            /\ videoDuration[p] >= audioDuration[p] /\ audioDuration[p] >= 0
            /\ 0 <= clipReq[p].ss
            /\ clipReq[p].ss <= videoDuration[p] - audioDuration[p]
            /\ clipReq[p].t = audioDuration[p]
            /\ clipReq[p].ss + clipReq[p].t <= videoDuration[p]
            /\ videoDuration[p] = audioDuration[p] => clipReq[p].ss = 0

\* A window that starts after the beginning of the source video.
C7_Witness ==
    /\ clipReq[1] # NoClip
    /\ clipReq[1].ss > 0
    /\ clipReq[1].t > 0

(* ------------------- the subtitle functions, applied ------------------ *)

Chars == {"a", "b", " "}

\* The texts of at most n characters.
Texts(n) == UNION {[1 .. m -> Chars] : m \in 0 .. n}

\* Texts of zero, one, two and three words.
SampleTexts ==
    { <<" ">>, <<"a">>, <<"a", " ", "b">>, <<"b", " ", " ", "a", "b", " ", "a">> }

\* The boundaries of m segments in time order: start <= end <= next start.
Boundaries(m) ==
    {t \in [1 .. 2 * m -> 0 .. MaxTime] : \A i \in 1 .. 2 * m - 1 : t[i] <= t[i + 1]}

TranscriptSegment(text, start, end) ==
    [text |-> text, start |-> RInt(start), end |-> RInt(end)]

\* One segment with any text of at most MaxChars characters.
OneSegment ==
    {<<TranscriptSegment(x, t[1], t[2])>> : x \in Texts(MaxChars), t \in Boundaries(1)}

\* At most MaxSegs segments with the sample texts.
SeveralSegments ==
    UNION {{[j \in 1 .. m |-> TranscriptSegment(x[j], t[2 * j - 1], t[2 * j])] :
              x \in [1 .. m -> SampleTexts], t \in Boundaries(m)} : m \in 0 .. MaxSegs}

\* The float nearest to j tenths of a second.
Tenths(j) == Fl(Rat(j, 10))

\* Boundaries that are not whole seconds, in tenths of a second.
TenthSamples == {0, 3, 14}

\* One segment with a sample text, from and to a tenth of a second.
RoundedSegments ==
    {<<[text |-> x, start |-> Tenths(t[1]), end |-> Tenths(t[2])]>> :
        x \in SampleTexts,
        t \in {u \in TenthSamples \X TenthSamples : u[1] <= u[2]}}

\* The segments ("hello world foo", 0, 3) and ("bar baz", 3, 4).
ExampleTranscript ==
    << TranscriptSegment(<<"h", "e", "l", "l", "o", " ", "w", "o", "r", "l", "d",
                           " ", "f", "o", "o">>, 0, 3),
       TranscriptSegment(<<"b", "a", "r", " ", "b", "a", "z">>, 3, 4) >>

InitSub ==
    /\ fs = Disk(LibraryVideos)
    /\ NoProcess
    /\ segments \in OneSegment \cup SeveralSegments \cup RoundedSegments
                     \cup {ExampleTranscript}
    /\ maxWordsPerSegment \in 1 .. MaxGroup
    /\ newSegments = <<>>
    /\ srt = <<>>
    /\ subStage = "transcribed"

\* generateSubtitles: the loop over the segments of the transcription.
GenerateSubtitles ==
    /\ subStage = "transcribed"
    /\ newSegments' = generateSubtitles(segments, maxWordsPerSegment)
    /\ subStage' = "split"
    /\ UNCHANGED <<pipeVars, segments, maxWordsPerSegment, srt>>

\* generateSubtitleFile(fileName, segments)
GenerateSubtitleFile ==
    /\ subStage = "split"
    /\ srt' = generateSubtitleFile(newSegments)
    /\ subStage' = "written"
    /\ UNCHANGED <<pipeVars, segments, maxWordsPerSegment, newSegments>>

NextSub == GenerateSubtitles \/ GenerateSubtitleFile

SubSpec == InitSub /\ [][NextSub]_vars

(* ---------------------- the subtitles' properties --------------------- *)

\* The positions of a text where a word starts.
WordStarts(text) ==
    {i \in 1 .. Len(text) : ~IsSpace(text[i]) /\ (i = 1 \/ IsSpace(text[i - 1]))}

\* The number of whitespace-separated words of a text.
WordCount(text) == Cardinality(WordStarts(text))

\* The q-th word of a text (q from 1).
Word(text, q) ==
    LET from == CHOOSE i \in WordStarts(text) :
                    Cardinality({x \in WordStarts(text) : x < i}) = q - 1
        to == CHOOSE e \in from .. Len(text) :
                    /\ \A x \in from .. e : ~IsSpace(text[x])
                    /\ e = Len(text) \/ IsSpace(text[e + 1])
    IN  SubSeq(text, from, to)

\* A text whose words are separated by one space each, with no other
\* whitespace.
SingleSpaced(text) ==
    \A i \in 1 .. Len(text) :
        IsSpace(text[i]) =>
            /\ text[i] = " "
            /\ i > 1 /\ i < Len(text)
            /\ ~IsSpace(text[i + 1])

CeilDiv(n, k) == (n + k - 1) \div k

RECURSIVE CuesBefore(_)
\* The number of cues the segments before segment j are to yield.
CuesBefore(j) ==
    IF j <= 1 THEN 0
    ELSE CuesBefore(j - 1)
           + CeilDiv(WordCount(segments[j - 1].text), maxWordsPerSegment)

RECURSIVE SumOfDurations(_)
SumOfDurations(cues) ==
    IF cues = <<>> THEN RInt(0)
    ELSE RAdd(RSub(Head(cues)[2], Head(cues)[1]), SumOfDurations(Tail(cues)))

\* C8: a segment of n words yields ceil(n / maxWordsPerSegment) cues, none
\* when n = 0; the cues hold the words of the segment in order, each the next
\* maxWordsPerSegment words and the last what is left, joined by single
\* spaces; and the durations of the segment's cues add up to no more than
\* the segment's end - start.
C8_CuesOfASegment ==
    subStage \in {"split", "written"} =>
        /\ Len(newSegments) = CuesBefore(Len(segments) + 1)
        /\ \A j \in 1 .. Len(segments) :
             LET seg == segments[j]
                 k == maxWordsPerSegment
                 n == WordCount(seg.text)
                 cues == SubSeq(newSegments, CuesBefore(j) + 1, CuesBefore(j + 1))
             IN  /\ Len(cues) = CeilDiv(n, k)
                 /\ \A q \in 1 .. Len(cues) :
                      LET m == IF q * k <= n THEN k ELSE n - (q - 1) * k
                      IN  /\ WordCount(cues[q][3]) = m
                          /\ SingleSpaced(cues[q][3])
                          /\ \A x \in 1 .. m :
                               Word(cues[q][3], x) = Word(seg.text, (q - 1) * k + x)
                 /\ RLe(SumOfDurations(cues), RSub(seg.end, seg.start))

\* A segment of three words split into groups of two.
C8_Witness ==
    /\ subStage = "split"
    /\ Len(segments) = 1
    /\ WordCount(segments[1].text) = 3
    /\ maxWordsPerSegment = 2
    /\ Len(newSegments) = 2

\* C9: the blocks of the subtitle file are numbered 1, 2, ..., m in file
\* order, m the number of cues, whatever the number of segments and of
\* segments without cues.
C9_CueNumbers ==
    subStage = "written" =>
        /\ Len(newSegments) = CuesBefore(Len(segments) + 1)
        /\ Len(srt) = 4 * Len(newSegments)
        /\ \A j \in 1 .. Len(newSegments) : srt[4 * (j - 1) + 1] = <<j>>

\* A file of several blocks from a transcript that starts with a segment
\* without words.
C9_Witness ==
    /\ subStage = "written"
    /\ Len(segments) = 2
    /\ WordCount(segments[1].text) = 0
    /\ Len(newSegments) >= 2

C11_CueTimes ==
    /\ subStage \in {"split", "written"} =>
          /\ Len(newSegments) = CuesBefore(Len(segments) + 1)
          /\ \A j \in 1 .. Len(segments) :
               \A q \in 1 .. CuesBefore(j + 1) - CuesBefore(j) :
                   LET seg == segments[j]
                       cue == newSegments[CuesBefore(j) + q]
                       i == (q - 1) * maxWordsPerSegment
                       perWordDuration ==
                           FOver(FSub(seg.end, seg.start), WordCount(seg.text))
                       unclamped ==
                           FAdd(seg.start,
                                FTimes(perWordDuration, i + maxWordsPerSegment))
                   IN  /\ cue[1] = FAdd(seg.start, FTimes(perWordDuration, i))
                       /\ cue[2] = IF RLe(unclamped, seg.end) THEN unclamped
                                                              ELSE seg.end
    /\ (/\ subStage \in {"split", "written"}
        /\ segments = ExampleTranscript
        /\ maxWordsPerSegment = 2) =>
          newSegments =
            << <<RInt(0), RInt(2),
                 <<"h", "e", "l", "l", "o", " ", "w", "o", "r", "l", "d">> >>,
               <<RInt(2), RInt(3), <<"f", "o", "o">> >>,
               <<RInt(3), RInt(4), <<"b", "a", "r", " ", "b", "a", "z">> >> >>
    /\ (/\ subStage = "written"
        /\ segments = ExampleTranscript
        /\ maxWordsPerSegment = 2) =>
          /\ Len(srt) = 12
          /\ srt[1] = <<1>> /\ srt[5] = <<2>> /\ srt[9] = <<3>>

\* The file of the example transcript, split into groups of 2.
C11_Witness ==
    /\ subStage = "written"
    /\ segments = ExampleTranscript
    /\ maxWordsPerSegment = 2
    /\ Len(newSegments) = 3

(* ------------------ generateSubtitleFile on any cues ------------------ *)

\* The time h:m:s,ms as a whole number of milliseconds.
Clock(h, m, s, ms) == Rat(((h * 60 + m) * 60 + s) * 1000 + ms, 1000)

\* Times around the widths of the four fields, up to more than 100 hours.
ClockTimes ==
    {Clock(h, m, s, ms) : h \in {0, 1, 9, 10, 99, 100, 101}, m \in {0, 9, 10, 59},
                          s \in {0, 9, 10, 59}, ms \in {0, 1, 9, 10, 99, 100, 999}}

\* Cues with start and end in any order.
AnyCues ==
    {<<RInt(a), RInt(b), x>> : a \in 0 .. 2, b \in 0 .. 2, x \in {<<"a">>, <<"b">>}}

\* The cue lists: one cue at a clock time, or at most MaxCues cues in any
\* order.
CueLists ==
    {<< <<c, c, <<"a">> >> >> : c \in ClockTimes}
        \cup UNION {[1 .. m -> AnyCues] : m \in 0 .. MaxCues}

InitRender ==
    /\ fs = Disk(LibraryVideos)
    /\ NoProcess
    /\ segments = <<>>
    /\ maxWordsPerSegment = 5
    /\ newSegments \in CueLists
    /\ srt = <<>>
    /\ subStage = "split"

NextRender == GenerateSubtitleFile

RenderSpec == InitRender /\ [][NextRender]_vars

(* --------------------- the subtitle file's properties ----------------- *)

RECURSIVE DigitsValue(_)
\* The number a sequence of decimal digits writes.
DigitsValue(ds) ==
    IF ds = <<>> THEN 0 ELSE 10 * DigitsValue(SubSeq(ds, 1, Len(ds) - 1)) + ds[Len(ds)]

IsDigits(ds) == \A i \in 1 .. Len(ds) : ds[i] \in 0 .. 9

\* The times of the cues of the file, each with the timecode written for it.
Timecodes ==
    IF Len(srt) # 4 * Len(newSegments) THEN {}
    ELSE {<<newSegments[j][1], srt[4 * (j - 1) + 2][1]>> : j \in 1 .. Len(newSegments)}
           \cup {<<newSegments[j][2], srt[4 * (j - 1) + 2][3]>> : j \in 1 .. Len(newSegments)}

\* The fields of timecode tc are those of time t, the hours on at least two
\* digits, the minutes and seconds on two and the milliseconds on three.
FieldsOf(t, tc) ==
    /\ IsDigits(tc.h) /\ IsDigits(tc.m) /\ IsDigits(tc.s) /\ IsDigits(tc.ms)
    /\ Len(tc.h) >= 2 /\ Len(tc.m) = 2 /\ Len(tc.s) = 2 /\ Len(tc.ms) = 3
    /\ DigitsValue(tc.m) < 60 /\ DigitsValue(tc.s) < 60 /\ DigitsValue(tc.ms) < 1000
    /\ (DigitsValue(tc.h) * 60 + DigitsValue(tc.m)) * 60 + DigitsValue(tc.s) = t.n \div t.d
    /\ DigitsValue(tc.ms) * t.d <= (t.n % t.d) * 1000
    /\ (t.n % t.d) * 1000 < (DigitsValue(tc.ms) + 1) * t.d

C17_BlocksInInputOrder ==
    subStage = "written" =>
        /\ Len(srt) = 4 * Len(newSegments)
        /\ \A j \in 1 .. Len(newSegments) :
             /\ srt[4 * (j - 1) + 1] = <<j>>
             /\ Len(srt[4 * (j - 1) + 2]) = 3
             /\ FieldsOf(newSegments[j][1], srt[4 * (j - 1) + 2][1])
             /\ FieldsOf(newSegments[j][2], srt[4 * (j - 1) + 2][3])
             /\ srt[4 * (j - 1) + 3] = newSegments[j][3]
             /\ srt[4 * (j - 1) + 4] = <<>>

\* A file of three cues: the second starts before the first, the third at
\* the same time as the second with another text.
C17_Witness ==
    /\ subStage = "written"
    /\ Len(newSegments) = 3
    /\ Len(srt) = 12
    /\ RLt(newSegments[2][1], newSegments[1][1])
    /\ newSegments[3][1] = newSegments[2][1]
    /\ newSegments[3][2] = newSegments[2][2]
    /\ newSegments[3][3] # newSegments[2][3]
    /\ RLt(newSegments[1][2], newSegments[1][1])

\* The cues of segment j.
CuesOf(j) ==
    IF Len(newSegments) < CuesBefore(j + 1) THEN <<>>
    ELSE SubSeq(newSegments, CuesBefore(j) + 1, CuesBefore(j + 1))

\* C16 as stated: a segment of zero duration (start = end) with at least one
\* word yields a single cue, and that cue starts and ends at the same time.
C16_ZeroDurationOneCue ==
    subStage \in {"split", "written"} =>
        /\ Len(newSegments) = CuesBefore(Len(segments) + 1)
        /\ \A j \in 1 .. Len(segments) :
             (segments[j].start = segments[j].end /\ WordCount(segments[j].text) >= 1) =>
                 /\ Len(CuesOf(j)) = 1
                 /\ CuesOf(j)[1][1] = CuesOf(j)[1][2]

\* C16, amended: a segment of zero duration (start = end) with n >= 1 words
\* yields ceil(n / maxWordsPerSegment) cues, one cue only when
\* n <= maxWordsPerSegment, and every one of them starts and ends at the
\* segment's start.
C16_ZeroDurationCues ==
    subStage \in {"split", "written"} =>
        /\ Len(newSegments) = CuesBefore(Len(segments) + 1)
        /\ \A j \in 1 .. Len(segments) :
             (segments[j].start = segments[j].end /\ WordCount(segments[j].text) >= 1) =>
                 /\ Len(CuesOf(j)) = CeilDiv(WordCount(segments[j].text), maxWordsPerSegment)
                 /\ (Len(CuesOf(j)) = 1) = (WordCount(segments[j].text) <= maxWordsPerSegment)
                 /\ \A q \in 1 .. Len(CuesOf(j)) :
                      /\ CuesOf(j)[q][1] = segments[j].start
                      /\ CuesOf(j)[q][2] = segments[j].start

\* A segment of three words and no duration, after time 0, split into
\* three cues.
C16_Witness ==
    /\ subStage = "split"
    /\ Len(segments) = 1
    /\ segments[1].start = segments[1].end
    /\ RLt(RInt(0), segments[1].start)
    /\ WordCount(segments[1].text) = 3
    /\ maxWordsPerSegment = 1
    /\ Len(newSegments) = 3

\* C20 as stated: the cues of a segment with at least one word and
\* end >= start tile it exactly: the first cue starts at the segment's
\* start, each cue ends where the next starts, and the last cue ends at the
\* segment's end.
C20_CuesTileExactly ==
    subStage \in {"split", "written"} =>
        /\ Len(newSegments) = CuesBefore(Len(segments) + 1)
        /\ \A j \in 1 .. Len(segments) :
             (WordCount(segments[j].text) >= 1 /\ RLe(segments[j].start, segments[j].end)) =>
                 LET cues == CuesOf(j)
                 IN  /\ Len(cues) >= 1
                     /\ cues[1][1] = segments[j].start
                     /\ \A q \in 1 .. Len(cues) - 1 : cues[q][2] = cues[q + 1][1]
                     /\ cues[Len(cues)][2] = segments[j].end

\* C20, amended: the cues of a segment with n >= 1 words and end >= start
\* cover it without overlap: the first cue starts at the segment's start,
\* each cue ends where the next starts, and the last cue ends at the
\* segment's end when n is not a multiple of maxWordsPerSegment, and else at
\* the smaller of the segment's end and the float start + n * ((end - start)
\* / n), which rounding can leave below the end; the durations add up to at
\* most end - start.
C20_CuesCoverSegment ==
    subStage \in {"split", "written"} =>
        /\ Len(newSegments) = CuesBefore(Len(segments) + 1)
        /\ \A j \in 1 .. Len(segments) :
             (WordCount(segments[j].text) >= 1 /\ RLe(segments[j].start, segments[j].end)) =>
                 LET cues == CuesOf(j)
                     seg == segments[j]
                     n == WordCount(seg.text)
                     whole == FAdd(seg.start,
                                   FTimes(FOver(FSub(seg.end, seg.start), n), n))
                 IN  /\ Len(cues) >= 1
                     /\ cues[1][1] = seg.start
                     /\ \A q \in 1 .. Len(cues) - 1 : cues[q][2] = cues[q + 1][1]
                     /\ RLe(cues[Len(cues)][2], seg.end)
                     /\ n % maxWordsPerSegment # 0 => cues[Len(cues)][2] = seg.end
                     /\ n % maxWordsPerSegment = 0 =>
                            cues[Len(cues)][2] = (IF RLt(whole, seg.end) THEN whole
                                                                        ELSE seg.end)
                     /\ RLe(SumOfDurations(cues), RSub(seg.end, seg.start))

\* A segment of two words, one cue each, whose last cue ends before the
\* segment does.
C20_Witness ==
    /\ subStage = "split"
    /\ Len(segments) = 1
    /\ WordCount(segments[1].text) = 2
    /\ maxWordsPerSegment = 1
    /\ Len(newSegments) = 2
    /\ newSegments[1][2] = newSegments[2][1]
    /\ RLt(newSegments[2][2], segments[1].end)

(* -------------------- the pipeline's later properties ----------------- *)

\* C13: a deletion that fails during cleanup is not raised to the caller:
\* an invocation that has started its cleanup does not fail, it goes on to
\* the remaining deletions and to the end.
C13_CleanupFailureNotRaised ==
    \A p \in Procs :
        "rmAudio" \in Ops(p) =>
            /\ pc[p] # "failed"
            /\ err[p] # "OSError: remove"

\* C14: no stage is retried: in an invocation each operation (generation,
\* synthesis, transcription, selection, each probe, encode, mux, each
\* deletion) is started at most once, and once the invocation has failed it
\* starts no operation any more (the next invocation starts from none).
C14_NoRetry ==
    /\ [](\A p \in Procs :
            \A i, j \in 1 .. Len(calls[p]) : calls[p][i] = calls[p][j] => i = j)
    /\ [][\A p \in Procs :
            pc[p] = "failed" => calls'[p] = calls[p] \/ calls'[p] = <<>>]_vars

\* An invocation that failed in the encoder, after six operations.
C14_Witness ==
    /\ pc[1] = "failed"
    /\ err[1] = "ffmpeg.Error: encode"
    /\ Len(calls[1]) >= 6
    /\ calls[1][Len(calls[1])] = "encode"

\* The operations that write or delete temporary file f.
WritersOf(f) ==
    CASE f = TEMP_AUDIO_FILE -> {"synthesize", "rmAudio"}
      [] f = TEMP_SRT_FILE -> {"writeSrt", "rmSrt"}
      [] f = TEMP_VIDEO_FILE -> {"encode", "rmVideo"}
      [] OTHER -> {}

\* C15: two runs at a time with the fixed temporary paths can collide: a
\* run reads a temporary file that the other run has overwritten or deleted
\* (C15_Witness is such a state), and every such read is the doing of the
\* other run: it has written or deleted that file.
C15_CollisionsAreTheOtherRuns ==
    \A p \in Procs :
        \A r \in reads[p] :
            (r.file \in TempFiles /\ r.state # "own") =>
                \E q \in Procs \ {p} : Ops(q) \cap WritersOf(r.file) # {}

\* The cleanup of run 2 has removed the narration of run 1 before run 1
\* muxed it, and run 1 has encoded with the subtitle file run 2 wrote.
C15_Witness ==
    /\ "rmAudio" \in Ops(2)
    /\ \E r \in reads[1] :
         r.step = "mux" /\ r.file = TEMP_AUDIO_FILE /\ r.state = "absent"
    /\ \E r \in reads[1] :
         r.step = "encode" /\ r.file = TEMP_SRT_FILE /\ r.state = "foreign"

\* The step of the list during which the operation at pc runs.
StepOfStage(at) ==
    CASE at = "prompt" -> PROMPT_STEP
      [] at = "synth" -> STEPS[2]
      [] at \in {"transcribe", "writeSrt"} -> STEPS[3]
      [] at \in {"select", "probeAudio", "probeVideo", "encode"} -> STEPS[4]
      [] at = "mux" -> STEPS[5]
      [] at \in {"rmAudio", "rmSrt", "rmVideo"} -> STEPS[6]
      [] at = "done" -> STEPS[7]
      [] OTHER -> "none"

\* C18: in script mode and in prompt mode, the operation of a stage runs
\* only while the current step of the printed list (the first step, moved on
\* by one per [NEXT]) is the step of that stage, and a run that succeeds has
\* printed one [NEXT] less than the list has steps: it ends on the last step.
C18_StageInAnnouncedStep ==
    \A p \in Procs :
        StepOfStage(pc[p]) # "none" =>
            LET steps == printSteps(args[p].prompt)
            IN  /\ nexts[p] + 1 <= Len(steps)
                /\ steps[nexts[p] + 1] = StepOfStage(pc[p])
                /\ pc[p] = "done" => nexts[p] = Len(steps) - 1

\* Exactly one of -s and -p is given on the command line of p.
OneSource(p) == args[p].script # (args[p].prompt # None)

\* C19: an invocation with neither -s nor -p, or with both, fails with the
\* error of its case before the step list and the first [NEXT] are printed
\* and before any operation is started or any file written; an invocation
\* gets further only with exactly one of them.
C19_ExactlyOneSource ==
    \A p \in Procs :
        pc[p] # "idle" =>
            /\ ~OneSource(p) =>
                  /\ pc[p] = "failed"
                  /\ err[p] = (IF args[p].script THEN "Exception: script and prompt"
                                                ELSE "Exception: no script or prompt")
                  /\ nexts[p] = 0
                  /\ calls[p] = <<>>
                  /\ reads[p] = {}
                  /\ \A f \in Paths : ~Own(p, f)
            /\ OneSource(p) =>
                  /\ nexts[p] >= 1
                  /\ err[p] \notin {"Exception: script and prompt",
                                    "Exception: no script or prompt"}

\* An invocation with -s and -p after one that ran to its end.
C19_Witness ==
    /\ pc[1] = "failed"
    /\ args[1].script
    /\ args[1].prompt = "a prompt"
    /\ err[1] = "Exception: script and prompt"
    /\ Exists(FINAL_VIDEO_FILE, fs)

====
